---- MODULE Spec2Model ----
(***************************************************************************)
(* The feedback bot (src/main.py, src/database.py) as a state machine.     *)
(*                                                                         *)
(* State: the three module-level containers of main.py (pending_feedback,  *)
(* media_groups, processing_media_groups), the dict objects that           *)
(* pending_feedback refers to (Python keeps them by reference, so a        *)
(* coroutine that fetched one before an await still mutates the same       *)
(* object afterwards), the coroutines that are suspended at an await that  *)
(* takes real time (the 1.5 s sleep of delayed_process, a file download),  *)
(* the inline keyboards that are on the user's screen, the two database    *)
(* tables the bot writes, and the wall clock.                              *)
(*                                                                         *)
(* One action per handler.  asyncio runs the code between two awaits       *)
(* without interruption; a handler is split only at download_file and at   *)
(* asyncio.sleep, the awaits during which other updates are handled.       *)
(***************************************************************************)
EXTENDS Integers, Sequences, FiniteSets, Bags, TLC

----------------------------------------------------------------------------
(* Bounds of the model. *)

\* PendingSubmissions created in one run (handle_feedback stops creating).
MaxHashes == 2
\* Copies of one keyboard on screen at a time.
MaxKeyboards == 1
\* Successful downloads in one run (each yields a fresh local path).
MaxDownloads == 2
\* handle_file_upload coroutines suspended at a download at a time.
MaxUploads == 2
\* Rows of the feedback table in one run.
MaxRecords == 2
\* The clock advances in steps of TimeStep seconds up to MaxTime.
TimeStep == 30
MaxTime == 30
\* Message ids of the album messages the transport delivers.
MaxMessageId == 2
\* Clock readings and record times tried on check_rate_limit alone.
MaxClock == 40

(* Program constants. *)

\* cooldown_seconds, the default of check_rate_limit.
Cooldown == 30

Users == {1}
Branches == {"Chilonzor"}
Texts == {"Broken AC"}
\* a name or phone as typed, with blanks around it
DetailTexts == {" Aziz "}
FileIds == {"fA", "dB"}
Groups == {"g1"}
MessageIds == 1..MaxMessageId

\* Python's None, and a present optional value.
None == <<>>
Some(x) == <<x>>

----------------------------------------------------------------------------
VARIABLES
  pending_feedback,        \* main.py: the dict pending_feedback
  feedback_data,           \* the dict objects created by handle_feedback, by token
  media_groups,            \* main.py: media_group_id -> list of messages
  processing_media_groups, \* main.py: ids being processed
  timers,                  \* delayed_process coroutines inside asyncio.sleep
  group_tasks,             \* process_media_group coroutines inside download_file
  uploads,                 \* handle_file_upload coroutines inside download_file
  keyboards,               \* inline keyboards on screen (a bag)
  feedback,                \* table feedback (each row with its feedback_files rows)
  feedback_submissions,    \* table feedback_submissions: user_id_hash -> time
  now,                     \* datetime.now(), in seconds
  downloads,               \* successful downloads so far (the %f of the file name)
  batch_history,           \* history: batch ids taken, and taken ones with later events
  last,                    \* what the last handler step answered
  rl                       \* the inputs of an isolated call (SpecRate) or of a scripted run

botvars == <<pending_feedback, feedback_data, media_groups, processing_media_groups,
             timers, group_tasks, uploads, keyboards, feedback,
             feedback_submissions, now, downloads, batch_history, last>>
vars == <<botvars, rl>>

----------------------------------------------------------------------------
(* dict operations *)

Has(d, k) == k \in DOMAIN d
Put(d, k, v) == [x \in (DOMAIN d) \cup {k} |-> IF x = k THEN v ELSE d[x]]
Pop(d, k) == [x \in (DOMAIN d) \ {k} |-> d[x]]
PopAll(d, ks) == [x \in (DOMAIN d) \ ks |-> d[x]]

(* keys of pending_feedback *)

WaitingFeedbackKey(u) == <<"waiting_feedback", u>>
WaitingFilesKey(u) == <<"waiting_files", u>>
WaitingNameKey(u) == <<"waiting_name", u>>
WaitingPhoneKey(u) == <<"waiting_phone", u>>
BranchKey(u) == <<"branch", u>>
UserNameKey(u) == <<"user_name", u>>
FilesKey(u) == <<"files", u>>
\* the md5 hexdigest under which handle_feedback stores a submission; the
\* digest covers datetime.now(), so every submission gets a new one
HashKey(h) == <<"hash", h>>

keys_to_remove(u) ==
  {WaitingFeedbackKey(u), WaitingFilesKey(u), WaitingNameKey(u),
   WaitingPhoneKey(u), BranchKey(u), UserNameKey(u), FilesKey(u)}

WaitingKeys(u) ==
  {WaitingFeedbackKey(u), WaitingFilesKey(u), WaitingNameKey(u), WaitingPhoneKey(u)}

SessionKeys(u) == WaitingKeys(u) \cup {BranchKey(u), UserNameKey(u)}

\* tokens handed out so far
Hashes == 1..Len(feedback_data)

(* keyboards: chat is the user whose event the prompt answers; in a private *)
(* chat only that user can press its buttons, in a group chat every member  *)
(* can, and the handler takes the user from callback.from_user              *)

BranchKeyboard(u) == [kind |-> "branch", chat |-> u, hash |-> None]
AttachKeyboard(u, h) == [kind |-> "attach", chat |-> u, hash |-> Some(h)]
FilesKeyboard(u, h) == [kind |-> "files", chat |-> u, hash |-> Some(h)]
FeedbackKeyboard(u, h) == [kind |-> "feedback", chat |-> u, hash |-> Some(h)]

OnScreen(kb) == CopiesIn(kb, keyboards) > 0
Show(kbs, kb) == kbs (+) SetToBag({kb})
Hide(kbs, kb) == kbs (-) SetToBag({kb})
CanShow(kb) == CopiesIn(kb, keyboards) < MaxKeyboards

(* answers *)

Answer(op, u, h, reply) ==
  [op |-> op, user |-> u, hash |-> h, reply |-> reply, added |-> 0, queued |-> 0,
   group |-> None, reset |-> FALSE]

----------------------------------------------------------------------------
(* database.py *)

hash_user_id(u) == <<"sha256", u>>

\* check_rate_limit with the cooldown's last second rejected too (<= for <)
check_rate_limit_le(submissions, user_id, cooldown_seconds, t, ok) ==
  IF ~ok THEN <<TRUE, None>>
  ELSE IF ~Has(submissions, hash_user_id(user_id)) THEN <<TRUE, None>>
  ELSE LET last_submission == submissions[hash_user_id(user_id)]
           time_since_submission == t - last_submission
       IN  IF time_since_submission <= cooldown_seconds
           THEN <<FALSE, Some(last_submission)>>
           ELSE <<TRUE, Some(last_submission)>>

\* check_rate_limit that rejects when the lookup fails
check_rate_limit_closed(submissions, user_id, cooldown_seconds, t, ok) ==
  IF ~ok THEN <<FALSE, None>>
  ELSE IF ~Has(submissions, hash_user_id(user_id)) THEN <<TRUE, None>>
  ELSE LET last_submission == submissions[hash_user_id(user_id)]
           time_since_submission == t - last_submission
       IN  IF time_since_submission < cooldown_seconds
           THEN <<FALSE, Some(last_submission)>>
           ELSE <<TRUE, Some(last_submission)>>

\* check_rate_limit; ok = FALSE is a failed lookup (no pool, or the query raises)
check_rate_limit(submissions, user_id, cooldown_seconds, t, ok) ==
  IF ~ok THEN <<TRUE, None>>
  ELSE IF ~Has(submissions, hash_user_id(user_id)) THEN <<TRUE, None>>
  ELSE LET last_submission == submissions[hash_user_id(user_id)]
           time_since_submission == t - last_submission
       IN  IF time_since_submission < cooldown_seconds
           THEN <<FALSE, Some(last_submission)>>
           ELSE <<TRUE, Some(last_submission)>>

\* update_user_submission_time: the upsert; a failure is logged and swallowed
update_user_submission_time(submissions, user_id, t, ok) ==
  IF ok THEN Put(submissions, hash_user_id(user_id), t) ELSE submissions

----------------------------------------------------------------------------
InitBot ==
  /\ pending_feedback = <<>>
  /\ feedback_data = <<>>
  /\ media_groups = <<>>
  /\ processing_media_groups = {}
  /\ timers = {}
  /\ group_tasks = {}
  /\ uploads = {}
  /\ keyboards = EmptyBag
  /\ feedback = <<>>
  /\ feedback_submissions = <<>>
  /\ now = 0
  /\ downloads = 0
  /\ batch_history = [fired |-> {}, late |-> {}]
  /\ last = Answer("start", 0, None, "none")

Init ==
  /\ InitBot
  /\ rl = None

\* the clock
Tick ==
  /\ now + TimeStep <= MaxTime
  /\ now' = now + TimeStep
  /\ UNCHANGED <<pending_feedback, feedback_data, media_groups,
                 processing_media_groups, timers, group_tasks, uploads, keyboards,
                 feedback, feedback_submissions, downloads, batch_history, last, rl>>

\* handle_new with the outcome of its rate-limit lookup: ok = FALSE is a
\* failed lookup
handle_new_lookup(u, ok) ==
    LET res == check_rate_limit(feedback_submissions, u, Cooldown, now, ok) IN
    /\ IF ~res[1]
       THEN /\ last' = Answer("handle_new", u, None, "rate_limited")
            /\ UNCHANGED <<pending_feedback, keyboards, timers>>
       ELSE /\ CanShow(BranchKeyboard(u))
            /\ pending_feedback' = PopAll(pending_feedback, keys_to_remove(u))
            /\ keyboards' = Show(keyboards, BranchKeyboard(u))
            \* history: the batches whose timer was pending at this /new
            /\ timers' = {[t EXCEPT !.reset = t.reset \/ t.user_id = u] : t \in timers}
            /\ last' = Answer("handle_new", u, None, "branch_prompt")
    /\ UNCHANGED <<feedback_data, media_groups, processing_media_groups,
                   group_tasks, uploads, feedback, feedback_submissions, now,
                   downloads, batch_history, rl>>

\* handle_new: /new
handle_new(u) == \E ok \in BOOLEAN : handle_new_lookup(u, ok)

\* handle_branch_selection: a button of the branch keyboard
handle_branch_selection_in(c, u, branch) ==
  /\ OnScreen(BranchKeyboard(c))
  /\ pending_feedback' =
       Put(Put(pending_feedback, BranchKey(u), branch), WaitingFeedbackKey(u), TRUE)
  /\ keyboards' = Hide(keyboards, BranchKeyboard(c))
  /\ last' = Answer("handle_branch_selection", u, None, "feedback_prompt")
  /\ UNCHANGED <<feedback_data, media_groups, processing_media_groups, timers,
                 group_tasks, uploads, feedback, feedback_submissions, now,
                 downloads, batch_history, rl>>

\* handle_branch_selection in the user's private chat
handle_branch_selection(u, branch) == handle_branch_selection_in(u, u, branch)

----------------------------------------------------------------------------
(* messages *)

Commands == {"/help"}
StartsWithSlash(t) == t \in Commands

\* str.strip(), on the texts of the model
Strip(t) == IF t = " Aziz " THEN "Aziz" ELSE t

KindOf(f) == IF f = "dB" THEN "document" ELSE "photo"

TextMessage(t) ==
  [text |-> Some(t), caption |-> None, file_id |-> None, kind |-> "none",
   media_group_id |-> None, message_id |-> 0]
\* a message with neither text nor caption nor file (a sticker)
EmptyMessage ==
  [text |-> None, caption |-> None, file_id |-> None, kind |-> "none",
   media_group_id |-> None, message_id |-> 0]
MediaMessage(f, c, g, i) ==
  [text |-> None, caption |-> c, file_id |-> Some(f), kind |-> KindOf(f),
   media_group_id |-> g, message_id |-> i]

Messages ==
  {TextMessage(t) : t \in Texts \cup DetailTexts \cup Commands} \cup {EmptyMessage}
  \cup {MediaMessage(f, c, None, 0) : f \in FileIds, c \in {None} \cup {Some(t) : t \in Texts}}
  \cup {MediaMessage(f, None, Some(g), i) : f \in FileIds, g \in Groups, i \in MessageIds}

\* WaitingForDetailsFilter.__call__
WaitingForDetailsFilter(u, m) ==
  IF m.text = None \/ StartsWithSlash(m.text[1]) THEN FALSE
  ELSE Has(pending_feedback, WaitingNameKey(u)) \/ Has(pending_feedback, WaitingPhoneKey(u))

----------------------------------------------------------------------------
(* save_feedback: save_feedback_to_db in one transaction, then            *)
(* update_user_submission_time.  Each row carries its feedback_files rows; *)
(* by, token and recorded (the upsert of the rate-limit record succeeded)   *)
(* are history: the tables do not hold them.                               *)

\* the row without its attachment rows (file_paths not passed on)
FeedbackRow_no_files(h, d, u, name, phone, recorded) ==
  [message |-> d.text, branch |-> d.branch, name |-> name, phone |-> phone,
   files |-> <<>>, created_at |-> now, by |-> u, token |-> h,
   recorded |-> recorded]

\* the row with message and branch in each other's column
FeedbackRow_swapped(h, d, u, name, phone, recorded) ==
  [message |-> d.branch, branch |-> d.text, name |-> name, phone |-> phone,
   files |-> d.files, created_at |-> now, by |-> u, token |-> h,
   recorded |-> recorded]

FeedbackRow(h, d, u, name, phone, recorded) ==
  [message |-> d.text, branch |-> d.branch, name |-> name, phone |-> phone,
   files |-> d.files, created_at |-> now, by |-> u, token |-> h,
   recorded |-> recorded]

\* save_feedback that drops the name and the phone
save_feedback_no_identity(h, d, u, name, phone, save_ok, update_ok) ==
  IF save_ok
  THEN /\ Len(feedback) < MaxRecords
       /\ feedback' = Append(feedback, FeedbackRow(h, d, u, None, None, update_ok))
       /\ feedback_submissions' =
            update_user_submission_time(feedback_submissions, u, now, update_ok)
  ELSE UNCHANGED <<feedback, feedback_submissions>>

\* the in-memory part of a handler is given by its caller; save_ok = FALSE is
\* save_feedback raising, update_ok = FALSE a failed upsert
save_feedback(h, d, u, name, phone, save_ok, update_ok) ==
  IF save_ok
  THEN /\ Len(feedback) < MaxRecords
       /\ feedback' = Append(feedback, FeedbackRow(h, d, u, name, phone, update_ok))
       /\ feedback_submissions' =
            update_user_submission_time(feedback_submissions, u, now, update_ok)
  ELSE UNCHANGED <<feedback, feedback_submissions>>

----------------------------------------------------------------------------
(* attachments *)

\* download_file's result: the %f of the timestamp makes every path new
LocalPath(u, f, n) == [user_id |-> u, file_id |-> f, stamp |-> n]

QueuedMessage(m) == [message_id |-> m.message_id, file_id |-> m.file_id[1], kind |-> m.kind]

\* handle_file_upload, entered from handle_feedback when waiting_files is set
handle_file_upload(u, m) ==
  LET feedback_hash == pending_feedback[WaitingFilesKey(u)] IN
  IF ~Has(pending_feedback, HashKey(feedback_hash))
  THEN /\ pending_feedback' = Pop(pending_feedback, WaitingFilesKey(u))
       /\ last' = Answer("handle_file_upload", u, Some(feedback_hash), "not_found")
       /\ UNCHANGED <<media_groups, timers, uploads, batch_history>>
  ELSE IF m.media_group_id # None
  THEN LET media_group_id == m.media_group_id[1]
           is_first_message == ~Has(media_groups, media_group_id)
           queued == IF is_first_message THEN <<>> ELSE media_groups[media_group_id]
           existing_message_ids == {queued[i].message_id : i \in 1..Len(queued)}
       IN
       /\ timers' =
            IF is_first_message
            THEN timers \cup {[media_group_id |-> media_group_id, user_id |-> u,
                               feedback_hash |-> feedback_hash, reset |-> FALSE]}
            ELSE timers
       /\ media_groups' =
            Put(media_groups, media_group_id,
                IF m.message_id \in existing_message_ids THEN queued
                ELSE Append(queued, QueuedMessage(m)))
       /\ batch_history' =
            [batch_history EXCEPT !.late =
               IF media_group_id \in batch_history.fired THEN @ \cup {media_group_id} ELSE @]
       /\ last' = Answer("handle_file_upload", u, Some(feedback_hash), "queued")
       /\ UNCHANGED <<pending_feedback, uploads>>
  ELSE IF m.file_id # None
  THEN LET frame == [user_id |-> u, feedback_hash |-> feedback_hash,
                     file_id |-> m.file_id[1], kind |-> m.kind] IN
       /\ frame \notin uploads
       /\ Cardinality(uploads) < MaxUploads
       /\ uploads' = uploads \cup {frame}
       /\ last' = Answer("handle_file_upload", u, Some(feedback_hash), "downloading")
       /\ UNCHANGED <<pending_feedback, media_groups, timers, batch_history>>
  ELSE /\ last' = Answer("handle_file_upload", u, Some(feedback_hash), "file_prompt")
       /\ UNCHANGED <<pending_feedback, media_groups, timers, uploads, batch_history>>

\* handle_file_upload after its download: lines 464-499
handle_file_upload_resume(frame, ok) ==
  LET u == frame.user_id
      h == frame.feedback_hash
  IN
  /\ frame \in uploads
  /\ uploads' = uploads \ {frame}
  /\ IF ok
     THEN /\ downloads < MaxDownloads
          /\ CanShow(FilesKeyboard(u, h))
          /\ downloads' = downloads + 1
          /\ feedback_data' =
               [feedback_data EXCEPT ![h].files =
                  Append(@, [path |-> LocalPath(u, frame.file_id, downloads + 1),
                             kind |-> frame.kind])]
          /\ pending_feedback' = Put(pending_feedback, HashKey(h), h)
          /\ keyboards' = Show(keyboards, FilesKeyboard(u, h))
          /\ last' = [Answer("handle_file_upload", u, Some(h), "files_received")
                        EXCEPT !.added = 1]
     ELSE /\ last' = Answer("handle_file_upload", u, Some(h), "file_prompt")
          /\ UNCHANGED <<downloads, feedback_data, pending_feedback, keyboards>>
  /\ UNCHANGED <<media_groups, processing_media_groups, timers, group_tasks, feedback,
                 feedback_submissions, now, batch_history, rl>>

\* the batch entry left in media_groups (get for pop)
take_messages_get(groups, media_group_id) == groups

\* media_groups.pop(media_group_id, None): what is left of media_groups
take_messages(groups, media_group_id) == Pop(groups, media_group_id)

\* process_media_group up to its first download: lines 343-372
process_media_group(media_group_id, user_id, feedback_hash, reset) ==
  /\ IF media_group_id \in processing_media_groups
     THEN /\ last' = [Answer("process_media_group", user_id, Some(feedback_hash),
                             "already_processing") EXCEPT !.group = Some(media_group_id),
                                     !.reset = reset]
          /\ UNCHANGED <<media_groups, processing_media_groups, group_tasks, batch_history>>
     ELSE /\ media_groups' = take_messages(media_groups, media_group_id)
          /\ batch_history' =
               [batch_history EXCEPT !.fired =
                  IF Has(media_groups, media_group_id) THEN @ \cup {media_group_id} ELSE @]
          /\ IF ~Has(media_groups, media_group_id)
             THEN /\ last' = [Answer("process_media_group", user_id, Some(feedback_hash),
                                     "no_messages") EXCEPT !.group = Some(media_group_id),
                                     !.reset = reset]
                  /\ UNCHANGED <<processing_media_groups, group_tasks>>
             ELSE IF ~Has(pending_feedback, HashKey(feedback_hash))
             THEN /\ last' = [Answer("process_media_group", user_id, Some(feedback_hash),
                                     "discarded") EXCEPT !.group = Some(media_group_id),
                                     !.reset = reset]
                  /\ UNCHANGED <<processing_media_groups, group_tasks>>
             ELSE /\ processing_media_groups' =
                       processing_media_groups \cup {media_group_id}
                  /\ group_tasks' = group_tasks \cup
                       {[media_group_id |-> media_group_id, user_id |-> user_id,
                         feedback_hash |-> feedback_hash,
                         messages |-> media_groups[media_group_id], i |-> 1,
                         file_paths |-> <<>>, processed_file_ids |-> {},
                         reset |-> reset]}
                  /\ last' = [Answer("process_media_group", user_id, Some(feedback_hash),
                                     "downloading") EXCEPT !.group = Some(media_group_id)]
  /\ UNCHANGED <<pending_feedback, feedback_data, uploads, keyboards, feedback,
                 feedback_submissions, now, downloads, rl>>

\* delayed_process: the sleep is over
delayed_process(t) ==
  /\ t \in timers
  /\ timers' = timers \ {t}
  /\ process_media_group(t.media_group_id, t.user_id, t.feedback_hash, t.reset)

\* the marker left in the set
discard_never(markers, media_group_id) == markers

\* processing_media_groups.discard(media_group_id)
discard(markers, media_group_id) == markers \ {media_group_id}

\* the new entries put in front of the list
extend_front(existing_files, new_files) == new_files \o existing_files

\* the list replaced by the new entries
extend_new_only(existing_files, new_files) == new_files

\* the new entries dropped
extend_nothing(existing_files, new_files) == existing_files

\* existing_files.extend(new_files)
extend(existing_files, new_files) == existing_files \o new_files

\* process_media_group after the download of messages[i]: lines 373-418
process_media_group_resume(task, ok) ==
  LET u == task.user_id
      h == task.feedback_hash
      g == task.media_group_id
      msg == task.messages[task.i]
      file_paths ==
        IF ok THEN Append(task.file_paths,
                          [path |-> LocalPath(u, msg.file_id, downloads + 1),
                           kind |-> msg.kind])
        ELSE task.file_paths
      processed_file_ids ==
        IF ok THEN task.processed_file_ids \cup {msg.file_id} ELSE task.processed_file_ids
      rest == {j \in (task.i + 1)..Len(task.messages) :
                 task.messages[j].file_id \notin processed_file_ids}
      existing_files == feedback_data[h].files
      existing_file_paths == {existing_files[j].path : j \in 1..Len(existing_files)}
      new_files == SelectSeq(file_paths, LAMBDA e : e.path \notin existing_file_paths)
  IN
  /\ task \in group_tasks
  /\ ok => downloads < MaxDownloads
  /\ downloads' = IF ok THEN downloads + 1 ELSE downloads
  /\ IF rest # {}
     THEN /\ group_tasks' = (group_tasks \ {task}) \cup
               {[task EXCEPT !.i = CHOOSE j \in rest : \A k \in rest : j <= k,
                             !.file_paths = file_paths,
                             !.processed_file_ids = processed_file_ids]}
          /\ last' = [Answer("process_media_group", u, Some(h), "downloading")
                        EXCEPT !.group = Some(g)]
          /\ UNCHANGED <<pending_feedback, feedback_data, processing_media_groups,
                         keyboards>>
     ELSE /\ group_tasks' = group_tasks \ {task}
          /\ processing_media_groups' = discard(processing_media_groups, g)
          /\ IF file_paths = <<>>
             THEN /\ last' = [Answer("process_media_group", u, Some(h), "no_files")
                                EXCEPT !.group = Some(g), !.reset = task.reset,
                                       !.queued = Len(task.messages)]
                  /\ UNCHANGED <<pending_feedback, feedback_data, keyboards>>
             ELSE /\ CanShow(FilesKeyboard(u, h))
                  /\ feedback_data' =
                       [feedback_data EXCEPT ![h].files = extend(existing_files, new_files)]
                  /\ pending_feedback' =
                       IF new_files # <<>> THEN Put(pending_feedback, HashKey(h), h)
                       ELSE pending_feedback
                  /\ keyboards' = Show(keyboards, FilesKeyboard(u, h))
                  /\ last' = [Answer("process_media_group", u, Some(h), "files_received")
                                EXCEPT !.group = Some(g), !.added = Len(new_files),
                                       !.queued = Len(task.messages),
                                       !.reset = task.reset]
  /\ UNCHANGED <<media_groups, timers, uploads, feedback, feedback_submissions, now,
                 batch_history, rl>>

\* handle_feedback: every message no earlier handler took
handle_feedback(u, m) ==
  LET feedback_text ==
        IF m.text # None THEN m.text[1]
        ELSE IF m.caption # None THEN m.caption[1] ELSE ""
      branch == IF Has(pending_feedback, BranchKey(u))
                THEN pending_feedback[BranchKey(u)] ELSE "Unknown"
      feedback_hash == Len(feedback_data) + 1
  IN
  /\ ~WaitingForDetailsFilter(u, m)
  /\ IF Has(pending_feedback, WaitingFilesKey(u))
     THEN /\ handle_file_upload(u, m)
          /\ UNCHANGED <<feedback_data, keyboards>>
     ELSE /\ IF ~Has(pending_feedback, WaitingFeedbackKey(u))
                \/ StartsWithSlash(feedback_text)
             THEN /\ last' = Answer("handle_feedback", u, None, "ignored")
                  /\ UNCHANGED <<pending_feedback, feedback_data, keyboards>>
             ELSE IF feedback_text = ""
             THEN /\ last' = Answer("handle_feedback", u, None, "text_prompt")
                  /\ UNCHANGED <<pending_feedback, feedback_data, keyboards>>
             ELSE /\ Len(feedback_data) < MaxHashes
                  /\ pending_feedback' =
                       Put(PopAll(pending_feedback, {WaitingFeedbackKey(u), BranchKey(u)}),
                           HashKey(feedback_hash), feedback_hash)
                  /\ feedback_data' =
                       Append(feedback_data,
                              [text |-> feedback_text, branch |-> branch,
                               files |-> <<>>, user |-> u])
                  /\ keyboards' = Show(keyboards, AttachKeyboard(u, feedback_hash))
                  /\ last' = Answer("handle_feedback", u, Some(feedback_hash),
                                    "attach_prompt")
          /\ UNCHANGED <<media_groups, timers, uploads, batch_history>>
  /\ UNCHANGED <<processing_media_groups, group_tasks, feedback, feedback_submissions,
                 now, downloads, rl>>

\* handle_file_attachment_yes
handle_file_attachment_yes_in(c, u, h) ==
  /\ OnScreen(AttachKeyboard(c, h))
  /\ pending_feedback' = Put(pending_feedback, WaitingFilesKey(u), h)
  /\ keyboards' = Hide(keyboards, AttachKeyboard(c, h))
  /\ last' = Answer("handle_file_attachment_yes", u, Some(h), "files_prompt")
  /\ UNCHANGED <<feedback_data, media_groups, processing_media_groups, timers,
                 group_tasks, uploads, feedback, feedback_submissions, now,
                 downloads, batch_history, rl>>

\* handle_file_attachment_yes in the user's private chat
handle_file_attachment_yes(u, h) == handle_file_attachment_yes_in(u, u, h)

\* handle_file_attachment_no
handle_file_attachment_no_in(c, u, h) ==
  /\ OnScreen(AttachKeyboard(c, h))
  /\ IF ~Has(pending_feedback, HashKey(h))
     THEN /\ last' = Answer("handle_file_attachment_no", u, Some(h), "not_found")
          /\ UNCHANGED keyboards
     ELSE /\ CanShow(FeedbackKeyboard(c, h))
          /\ keyboards' = Show(Hide(keyboards, AttachKeyboard(c, h)), FeedbackKeyboard(c, h))
          /\ last' = Answer("handle_file_attachment_no", u, Some(h), "identity_prompt")
  /\ UNCHANGED <<pending_feedback, feedback_data, media_groups,
                 processing_media_groups, timers, group_tasks, uploads, feedback,
                 feedback_submissions, now, downloads, batch_history, rl>>

\* handle_file_attachment_no in the user's private chat
handle_file_attachment_no(u, h) == handle_file_attachment_no_in(u, u, h)

\* handle_file_done
handle_file_done_in(c, u, h) ==
  /\ OnScreen(FilesKeyboard(c, h))
  /\ pending_feedback' = Pop(pending_feedback, WaitingFilesKey(u))
  /\ IF ~Has(pending_feedback, HashKey(h))
     THEN /\ last' = Answer("handle_file_done", u, Some(h), "not_found")
          /\ UNCHANGED keyboards
     ELSE /\ CanShow(FeedbackKeyboard(c, h))
          /\ keyboards' = Show(Hide(keyboards, FilesKeyboard(c, h)), FeedbackKeyboard(c, h))
          /\ last' = Answer("handle_file_done", u, Some(h), "identity_prompt")
  /\ UNCHANGED <<feedback_data, media_groups, processing_media_groups, timers,
                 group_tasks, uploads, feedback, feedback_submissions, now,
                 downloads, batch_history, rl>>

\* handle_file_done in the user's private chat
handle_file_done(u, h) == handle_file_done_in(u, u, h)

\* handle_file_add_more
handle_file_add_more_in(c, u, h) ==
  /\ OnScreen(FilesKeyboard(c, h))
  /\ pending_feedback' = Put(pending_feedback, WaitingFilesKey(u), h)
  /\ keyboards' = Hide(keyboards, FilesKeyboard(c, h))
  /\ last' = Answer("handle_file_add_more", u, Some(h), "files_prompt")
  /\ UNCHANGED <<feedback_data, media_groups, processing_media_groups, timers,
                 group_tasks, uploads, feedback, feedback_submissions, now,
                 downloads, batch_history, rl>>

\* handle_file_add_more in the user's private chat
handle_file_add_more(u, h) == handle_file_add_more_in(u, u, h)

\* handle_keep_anonymous
handle_keep_anonymous_in(c, u, h) ==
  /\ OnScreen(FeedbackKeyboard(c, h))
  /\ IF ~Has(pending_feedback, HashKey(h))
     THEN /\ last' = Answer("handle_keep_anonymous", u, Some(h), "not_found")
          /\ UNCHANGED <<pending_feedback, keyboards, feedback, feedback_submissions>>
     ELSE /\ pending_feedback' = Pop(pending_feedback, HashKey(h))
          /\ \E save_ok, update_ok \in BOOLEAN :
               /\ save_feedback(h, feedback_data[h], u, None, None, save_ok, update_ok)
               /\ IF save_ok
                  THEN /\ keyboards' = Hide(keyboards, FeedbackKeyboard(c, h))
                       /\ last' = Answer("handle_keep_anonymous", u, Some(h), "saved")
                  ELSE /\ UNCHANGED keyboards
                       /\ last' = Answer("handle_keep_anonymous", u, Some(h), "save_failed")
  /\ UNCHANGED <<feedback_data, media_groups, processing_media_groups, timers,
                 group_tasks, uploads, now, downloads, batch_history, rl>>

\* handle_keep_anonymous in the user's private chat
handle_keep_anonymous(u, h) == handle_keep_anonymous_in(u, u, h)

\* handle_add_details
handle_add_details_in(c, u, h) ==
  /\ OnScreen(FeedbackKeyboard(c, h))
  /\ IF ~Has(pending_feedback, HashKey(h))
     THEN /\ last' = Answer("handle_add_details", u, Some(h), "not_found")
          /\ UNCHANGED <<pending_feedback, keyboards>>
     ELSE /\ pending_feedback' = Put(pending_feedback, WaitingNameKey(u), h)
          /\ keyboards' = Hide(keyboards, FeedbackKeyboard(c, h))
          /\ last' = Answer("handle_add_details", u, Some(h), "name_prompt")
  /\ UNCHANGED <<feedback_data, media_groups, processing_media_groups, timers,
                 group_tasks, uploads, feedback, feedback_submissions, now,
                 downloads, batch_history, rl>>

\* handle_add_details in the user's private chat
handle_add_details(u, h) == handle_add_details_in(u, u, h)

\* handle_details_submission: the name, then the phone number
handle_details_submission(u, m) ==
  /\ WaitingForDetailsFilter(u, m)
  /\ IF Has(pending_feedback, WaitingNameKey(u))
     THEN LET feedback_hash == pending_feedback[WaitingNameKey(u)]
              popped == Pop(pending_feedback, WaitingNameKey(u))
              name == Strip(m.text[1])
          IN
          /\ IF ~Has(popped, HashKey(feedback_hash))
             THEN /\ pending_feedback' = popped
                  /\ last' = Answer("handle_details_submission", u, Some(feedback_hash),
                                    "not_found")
             ELSE /\ pending_feedback' =
                       Put(Put(popped, UserNameKey(u), name),
                           WaitingPhoneKey(u), feedback_hash)
                  /\ last' = Answer("handle_details_submission", u, Some(feedback_hash),
                                    "phone_prompt")
          /\ UNCHANGED <<feedback, feedback_submissions>>
     ELSE LET feedback_hash == pending_feedback[WaitingPhoneKey(u)]
              found == Has(pending_feedback, HashKey(feedback_hash))
              name == IF Has(pending_feedback, UserNameKey(u))
                      THEN pending_feedback[UserNameKey(u)] ELSE "Unknown"
              phone == Strip(m.text[1])
          IN
          /\ pending_feedback' =
               PopAll(pending_feedback,
                      {WaitingPhoneKey(u), HashKey(feedback_hash), UserNameKey(u)})
          /\ IF ~found
             THEN /\ last' = Answer("handle_details_submission", u, Some(feedback_hash),
                                    "not_found")
                  /\ UNCHANGED <<feedback, feedback_submissions>>
             ELSE \E save_ok, update_ok \in BOOLEAN :
                    /\ save_feedback(feedback_hash, feedback_data[feedback_hash], u,
                                     Some(name), Some(phone), save_ok, update_ok)
                    /\ last' = Answer("handle_details_submission", u, Some(feedback_hash),
                                      IF save_ok THEN "saved" ELSE "save_failed")
  /\ UNCHANGED <<feedback_data, media_groups, processing_media_groups, timers,
                 group_tasks, uploads, keyboards, now, downloads, batch_history, rl>>

----------------------------------------------------------------------------
(* The environment: which updates the transport delivers. *)

TextMessages == {TextMessage(t) : t \in Texts \cup Commands} \cup {EmptyMessage}
DetailMessages == {TextMessage(t) : t \in DetailTexts}
SingleFiles ==
  {MediaMessage(f, c, None, 0) : f \in FileIds, c \in {None} \cup {Some(t) : t \in Texts}}
AlbumFiles ==
  {MediaMessage(f, None, Some(g), i) : f \in FileIds, g \in Groups, i \in MessageIds}

\* the start of a flow: /new, the branch, the messages, "attach files: yes"
Start(MS) ==
  \/ \E u \in Users : handle_new(u)
  \/ \E u \in Users, b \in Branches : handle_branch_selection(u, b)
  \/ \E u \in Users, m \in MS : handle_feedback(u, m)
  \/ \E u \in Users, h \in Hashes : handle_file_attachment_yes(u, h)

\* "attach files: no" and "stay anonymous"
Finish ==
  \/ \E u \in Users, h \in Hashes : handle_file_attachment_no(u, h)
  \/ \E u \in Users, h \in Hashes : handle_keep_anonymous(u, h)

\* the identity path: name and phone
Details(MS) ==
  \/ \E u \in Users, h \in Hashes : handle_add_details(u, h)
  \/ \E u \in Users, m \in MS : handle_details_submission(u, m)

\* the buttons under a "files received" prompt
FileButtons ==
  \/ \E u \in Users, h \in Hashes : handle_file_done(u, h)
  \/ \E u \in Users, h \in Hashes : handle_file_add_more(u, h)

\* a single file's download ends
Uploads ==
  \E f \in uploads, ok \in BOOLEAN : handle_file_upload_resume(f, ok)

\* an album's timer fires, one of its downloads ends
Albums ==
  \/ \E t \in timers : delayed_process(t)
  \/ \E t \in group_tasks, ok \in BOOLEAN : process_media_group_resume(t, ok)

OneSubmission == Len(feedback_data') <= 1

Next ==
  \/ Tick
  \/ Start(Messages)
  \/ Finish
  \/ Details(Messages)
  \/ FileButtons
  \/ Uploads
  \/ Albums

Spec == Init /\ [][Next]_vars

\* the conversation without attachments
NextFlow ==
  \/ Tick
  \/ Start(TextMessages)
  \/ Finish
  \/ Details(TextMessages \cup DetailMessages)

SpecFlow == Init /\ [][NextFlow]_vars

\* one submission with single files
NextUpload ==
  \/ Start(TextMessages \cup SingleFiles) /\ OneSubmission
  \/ Finish
  \/ FileButtons
  \/ Uploads

SpecUpload == Init /\ [][NextUpload]_vars

\* one submission with an album
NextAlbum ==
  \/ Start(TextMessages \cup AlbumFiles) /\ OneSubmission
  \/ Finish
  \/ FileButtons
  \/ Albums

SpecAlbum == Init /\ [][NextAlbum]_vars

\* a caller that invokes process_media_group itself, at any moment, for a
\* batch id and a target of its choice (the simulated race)
process_media_group_call(g, u, h) ==
  /\ process_media_group(g, u, h, FALSE)
  /\ UNCHANGED timers

NextRace ==
  \/ Start(TextMessages \cup AlbumFiles) /\ OneSubmission
  \/ FileButtons
  \/ Albums
  \/ \E g \in Groups, u \in Users, h \in Hashes : process_media_group_call(g, u, h)

SpecRace == Init /\ [][NextRace]_vars

\* check_rate_limit alone, on every table, clock and cooldown of the bounds
RateInputs ==
  [user_id : Users, record : {None} \cup {Some(t) : t \in 0..MaxClock},
   t : 0..MaxClock, cooldown_seconds : {1, Cooldown}, ok : BOOLEAN,
   result : {None}]

InitRate ==
  /\ InitBot
  /\ rl \in {Some(i) : i \in {j \in RateInputs : j.record # None => j.record[1] <= j.t}}

check_rate_limit_call ==
  /\ rl # None /\ rl[1].result = None
  /\ LET i == rl[1]
         table == IF i.record = None THEN <<>>
                  ELSE (hash_user_id(i.user_id) :> i.record[1])
     IN rl' = Some([i EXCEPT !.result =
                     Some(check_rate_limit(table, i.user_id, i.cooldown_seconds, i.t, i.ok))])
  /\ UNCHANGED botvars

SpecRate == InitRate /\ [][check_rate_limit_call]_vars
----------------------------------------------------------------------------
(* The claims. *)

StepsOf(u) == WaitingKeys(u) \cap DOMAIN pending_feedback
RowsOf(h) == {i \in 1..Len(feedback) : feedback[i].token = h}
Finalizers == {"handle_keep_anonymous", "handle_details_submission"}

\* C1: in every reachable state a user's session is in at most one step: at
\* most one of waiting_feedback:u, waiting_files:u, waiting_name:u,
\* waiting_phone:u is a key of pending_feedback.
C1_AtMostOneStep ==
  \A u \in Users : Cardinality(StepsOf(u)) <= 1

\* C2: right after an accepted /new of user u no in-progress data of u is
\* left: none of u's waiting_*, branch and user_name keys, and no
\* PendingSubmission that u created.
C2_NewDiscardsFlow ==
  (last.op = "handle_new" /\ last.reply = "branch_prompt") =>
    /\ SessionKeys(last.user) \cap DOMAIN pending_feedback = {}
    /\ \A h \in Hashes :
         feedback_data[h].user = last.user => ~Has(pending_feedback, HashKey(h))

\* C3: a PendingSubmission is consumed exactly once: a token that a
\* finalization has persisted is not a key of pending_feedback again, and
\* no second record is persisted for it.
C3_ConsumedOnce ==
  \A h \in Hashes :
    RowsOf(h) # {} =>
      /\ ~Has(pending_feedback, HashKey(h))
      /\ Cardinality(RowsOf(h)) = 1

\* C4: when the persistence call of a finalization fails, the in-memory
\* state is as before it: the PendingSubmission is still under its token
\* and, on the identity path, the name and waiting_phone are still there.
C4_FailureKeepsState ==
  (last.op \in Finalizers /\ last.reply = "save_failed") =>
    /\ Has(pending_feedback, HashKey(last.hash[1]))
    /\ last.op = "handle_details_submission" =>
         /\ Has(pending_feedback, UserNameKey(last.user))
         /\ Has(pending_feedback, WaitingPhoneKey(last.user))

\* C5: once a submission of a user is persisted and its rate-limit record
\* written at time t, no other submission of that user is persisted at a
\* time t' with t' - t < Cooldown.
C5_CooldownBetweenRecords ==
  \A i, j \in 1..Len(feedback) :
    (i < j /\ feedback[i].by = feedback[j].by /\ feedback[i].recorded) =>
      feedback[j].created_at - feedback[i].created_at >= Cooldown

BatchEnded ==
  /\ last.op = "process_media_group"
  /\ last.reply \in {"files_received", "no_files"}

\* the entries the last step appended to its target's attachment list
Appended ==
  LET files == feedback_data[last.hash[1]].files IN
  {files[i] : i \in (Len(files) - last.added + 1)..Len(files)}

\* C7: the events of one batch id, all arrived before its timer fired, give
\* exactly one combined prompt, add at most as many entries as there were
\* events, and add no two entries of the same file reference.
C7_OnePromptPerBatch ==
  (BatchEnded /\ last.group[1] \notin batch_history.late) =>
    /\ last.reply = "files_received"
    /\ last.added <= last.queued
    /\ \A e, f \in Appended : e.path.file_id = f.path.file_id => e = f

Program == <<pending_feedback, feedback_data, media_groups, processing_media_groups,
             group_tasks, uploads, keyboards, feedback, feedback_submissions>>

\* process_media_group is invoked for batch id g, by a timer or by the caller
Invoked(g) ==
  \/ \E t \in timers : t.media_group_id = g /\ delayed_process(t)
  \/ \E u \in Users, h \in Hashes : process_media_group_call(g, u, h)

\* C8: an invocation of process_media_group for a batch id whose queued
\* events an earlier invocation has taken (that one suspended at a download
\* or already returned), with no event of the id arrived since, changes
\* nothing and emits nothing.
C8_SecondInvocationNoOp ==
  [][\A g \in Groups :
       (Invoked(g) /\ g \in batch_history.fired \ batch_history.late)
       => /\ UNCHANGED Program
          /\ last'.reply \in {"already_processing", "no_messages"}]_vars

\* a second invocation has returned for a batch whose events were taken before
C8_Witness ==
  /\ last.op = "process_media_group"
  /\ last.reply \in {"already_processing", "no_messages"}
  /\ last.group[1] \in batch_history.fired \ batch_history.late

\* C9: a batch whose timer was pending when its user's /new was accepted is
\* discarded when the timer fires: nothing is appended and no prompt is sent.
C9_ResetDiscardsBatch ==
  (last.op = "process_media_group" /\ last.reset) =>
    (last.reply # "files_received" /\ last.added = 0)

\* C10: after a successful finalization by user u none of u's waiting_*,
\* branch and user_name keys is a key of pending_feedback.
C10_SessionDestroyed ==
  (last.op \in Finalizers /\ last.reply = "saved") =>
    SessionKeys(last.user) \cap DOMAIN pending_feedback = {}

----------------------------------------------------------------------------
\* user u sends a message (text, caption, file): whichever handler takes it
MessageEvent(u) ==
  \E m \in Messages : handle_feedback(u, m) \/ handle_details_submission(u, m)

\* u presses a button of a prompt that is asked while no step marker is set:
\* the branch, "attach files?" and "add details?" keyboards
DecisionEvent(u) ==
  \/ \E b \in Branches : handle_branch_selection(u, b)
  \/ \E h \in Hashes :
       \/ handle_file_attachment_yes(u, h)
       \/ handle_file_attachment_no(u, h)
       \/ handle_keep_anonymous(u, h)
       \/ handle_add_details(u, h)

\* u presses a button of the "files received" keyboard of submission h
FilesEvent(u, h) == handle_file_done(u, h) \/ handle_file_add_more(u, h)

\* u is waiting for files for submission h
WaitingFilesFor(u, h) ==
  Has(pending_feedback, WaitingFilesKey(u)) /\ pending_feedback[WaitingFilesKey(u)] = h

\* C11: an event of a user whose session is not at the step the event belongs
\* to changes neither pending_feedback nor media_groups: a message while no
\* waiting marker of the user is set, a button of a decision prompt while the
\* user is at a waiting step, a button of the files prompt while the user is
\* not waiting for files for that submission.
C11_UnmatchedIgnored ==
  [][\A u \in Users :
       /\ (MessageEvent(u) /\ StepsOf(u) = {})
            => UNCHANGED <<pending_feedback, media_groups>>
       /\ (DecisionEvent(u) /\ StepsOf(u) # {})
            => UNCHANGED <<pending_feedback, media_groups>>
       /\ \A h \in Hashes :
            (FilesEvent(u, h) /\ ~WaitingFilesFor(u, h))
              => UNCHANGED <<pending_feedback, media_groups>>]_vars

----------------------------------------------------------------------------
\* single files and the identity path together, any number of submissions
NextStale ==
  \/ Start(TextMessages \cup SingleFiles)
  \/ Finish
  \/ Details(TextMessages \cup DetailMessages)
  \/ FileButtons
  \/ Uploads

SpecStale == Init /\ [][NextStale]_vars

\* the waiting markers that hold a token
TokenMarkers(u) == {WaitingFilesKey(u), WaitingNameKey(u), WaitingPhoneKey(u)}

\* a marker of u holds a token that is not a key of pending_feedback
StaleMarker(u) ==
  \E k \in TokenMarkers(u) :
    Has(pending_feedback, k) /\ ~Has(pending_feedback, HashKey(pending_feedback[k]))

\* u sends a text that is not a command
TextEvent(u) ==
  \E m \in Messages :
    /\ m.text # None /\ ~StartsWithSlash(m.text[1])
    /\ handle_feedback(u, m) \/ handle_details_submission(u, m)

\* C12: a text (not a command) from a user one of whose markers
\* waiting_files, waiting_name, waiting_phone holds a token that is no longer
\* in pending_feedback is answered with "not found", and no row is written.
C12_StaleTextAnswered ==
  [][\A u \in Users :
       (TextEvent(u) /\ StaleMarker(u))
         => (last'.reply = "not_found" /\ feedback' = feedback)]_vars

\* a name or phone was sent for a submission that was gone
C12_Witness ==
  last.op = "handle_details_submission" /\ last.reply = "not_found"

----------------------------------------------------------------------------
(* Scripted runs: one user sends a fixed sequence of events to a fresh bot. *)
(* rl holds the script's inputs; the position in the script is read from    *)
(* the answer to the previous event.                                        *)

ScriptUsers == {1, 2}
ScriptBranches == {"Chinobod", "Chilonzor", "Not specified"}
ScriptTexts == {"Broken AC", "Long queue"}
ScriptNames == {"Aziz", " Aziz "}
ScriptPhones == {"+998901234567"}

Scripts ==
  [user_id : ScriptUsers, branch : ScriptBranches, text : ScriptTexts,
   name : ScriptNames, phone : ScriptPhones]

InitScript ==
  /\ InitBot
  /\ rl \in {Some(sc) : sc \in Scripts}

script == rl[1]

After(op, reply) == last.op = op /\ last.reply = reply

\* /new, the branch button, the text
ScriptNew == After("start", "none") /\ handle_new(script.user_id)
ScriptBranch ==
  /\ After("handle_new", "branch_prompt")
  /\ handle_branch_selection(script.user_id, script.branch)
ScriptText ==
  /\ After("handle_branch_selection", "feedback_prompt")
  /\ handle_feedback(script.user_id, TextMessage(script.text))

\* "attach files: no", "stay anonymous"
ScriptNo ==
  /\ After("handle_feedback", "attach_prompt")
  /\ handle_file_attachment_no(script.user_id, 1)
ScriptKeep ==
  /\ After("handle_file_attachment_no", "identity_prompt")
  /\ handle_keep_anonymous(script.user_id, 1)

\* /new, branch, text, no attachments, stay anonymous
NextAnonymous ==
  \/ Tick
  \/ ScriptNew
  \/ ScriptBranch
  \/ ScriptText
  \/ ScriptNo
  \/ ScriptKeep

SpecAnonymous == InitScript /\ [][NextAnonymous]_vars

\* C13: after /new, branch b, text m, "no attachments", "stay anonymous" with
\* the save succeeding, the feedback table holds exactly one row, with
\* branch b, message m, no name, no phone and no attachment rows.
C13_AnonymousRecord ==
  After("handle_keep_anonymous", "saved") =>
    /\ Len(feedback) = 1
    /\ feedback[1].branch = script.branch
    /\ feedback[1].message = script.text
    /\ feedback[1].name = None
    /\ feedback[1].phone = None
    /\ feedback[1].files = <<>>

\* the anonymous run has ended with its row written
C13_Witness ==
  /\ After("handle_keep_anonymous", "saved")
  /\ Len(feedback) = 1 /\ feedback[1].by = script.user_id

----------------------------------------------------------------------------
\* "add details", the name, the phone, and a text after the end
ScriptAddDetails ==
  /\ After("handle_file_attachment_no", "identity_prompt")
  /\ handle_add_details(script.user_id, 1)
ScriptName ==
  /\ After("handle_add_details", "name_prompt")
  /\ handle_details_submission(script.user_id, TextMessage(script.name))
ScriptPhone ==
  /\ After("handle_details_submission", "phone_prompt")
  /\ handle_details_submission(script.user_id, TextMessage(script.phone))
ScriptLater ==
  /\ After("handle_details_submission", "saved")
  /\ \E t \in ScriptTexts :
       \/ handle_feedback(script.user_id, TextMessage(t))
       \/ handle_details_submission(script.user_id, TextMessage(t))

\* /new, branch, text, no attachments, add details, name, phone, a later text
NextIdentity ==
  \/ Tick
  \/ ScriptNew
  \/ ScriptBranch
  \/ ScriptText
  \/ ScriptNo
  \/ ScriptAddDetails
  \/ ScriptName
  \/ ScriptPhone
  \/ ScriptLater

SpecIdentity == InitScript /\ [][NextIdentity]_vars

\* C14: after /new, branch, text, "no attachments", "add details", name n,
\* phone p with the save succeeding, the table holds exactly one row, with
\* name n and phone p (as str.strip() leaves them), and no session key of
\* the user nor the token is left; a text the user sends after that changes
\* nothing, writes no row and is not taken as a new flow.
C14_IdentityRecord ==
  /\ [](After("handle_details_submission", "saved") =>
          /\ Len(feedback) = 1
          /\ feedback[1].name = Some(Strip(script.name))
          /\ feedback[1].phone = Some(Strip(script.phone))
          /\ SessionKeys(script.user_id) \cap DOMAIN pending_feedback = {}
          /\ ~Has(pending_feedback, HashKey(1)))
  /\ [][ScriptLater =>
          /\ UNCHANGED <<Program, timers>>
          /\ last'.reply = "ignored"]_vars

\* the text sent after the identity run has been ignored
C14_Witness ==
  /\ After("handle_feedback", "ignored")
  /\ Len(feedback) = 1 /\ feedback[1].name = Some("Aziz")

----------------------------------------------------------------------------
\* file ids of photos
ScriptPhotos == {"fA", "fC"}

\* "attach files: yes", two photos of one album, the timer, both downloads,
\* "done"
ScriptYes ==
  /\ After("handle_feedback", "attach_prompt")
  /\ handle_file_attachment_yes(script.user_id, 1)
ScriptFirstPhoto ==
  /\ After("handle_file_attachment_yes", "files_prompt")
  /\ \E f \in ScriptPhotos :
       handle_feedback(script.user_id, MediaMessage(f, None, Some("g1"), 1))
ScriptSecondPhoto ==
  /\ After("handle_file_upload", "queued")
  /\ Len(media_groups["g1"]) = 1
  /\ \E f \in ScriptPhotos \ {media_groups["g1"][1].file_id} :
       handle_feedback(script.user_id, MediaMessage(f, None, Some("g1"), 2))
ScriptTimer ==
  /\ After("handle_file_upload", "queued")
  /\ Len(media_groups["g1"]) = 2
  /\ \E t \in timers : delayed_process(t)
ScriptDownload ==
  /\ After("process_media_group", "downloading")
  /\ \E t \in group_tasks : process_media_group_resume(t, TRUE)
ScriptDone ==
  /\ After("process_media_group", "files_received")
  /\ handle_file_done(script.user_id, 1)
ScriptKeepFiles ==
  /\ After("handle_file_done", "identity_prompt")
  /\ handle_keep_anonymous(script.user_id, 1)

\* /new, branch, text, yes, an album of two photos, done, stay anonymous
NextAlbumRun ==
  \/ Tick
  \/ ScriptNew
  \/ ScriptBranch
  \/ ScriptText
  \/ ScriptYes
  \/ ScriptFirstPhoto
  \/ ScriptSecondPhoto
  \/ ScriptTimer
  \/ ScriptDownload
  \/ ScriptDone
  \/ ScriptKeepFiles

SpecAlbumRun == InitScript /\ [][NextAlbumRun]_vars

\* C15: after branch, text, "yes", two distinct photos of one batch whose
\* downloads both succeed, the timer, "done" and "stay anonymous" with the
\* save succeeding, the table holds exactly one row and that row has
\* exactly 2 attachment rows, one for each photo.
C15_AlbumRecord ==
  After("handle_keep_anonymous", "saved") =>
    /\ Len(feedback) = 1
    /\ Len(feedback[1].files) = 2
    /\ {feedback[1].files[i].path.file_id : i \in 1..2} = ScriptPhotos
    /\ \A i \in 1..2 : feedback[1].files[i].kind = "photo"

\* the album run has ended with its row written
C15_Witness ==
  /\ After("handle_keep_anonymous", "saved")
  /\ Len(feedback) = 1 /\ downloads = 2

----------------------------------------------------------------------------
\* a message without text and without caption
EmptyText(m) == m.text = None /\ m.caption = None

\* the text of a message that carries one and is not a command
ValidText(m) == m.text # None /\ ~StartsWithSlash(m.text[1])

\* u sends message m: whichever handler takes it
Sends(u, m) == handle_feedback(u, m) \/ handle_details_submission(u, m)

\* C16: a message with empty text from a user whose waiting_feedback marker
\* is set is answered with the request for text and changes neither
\* pending_feedback nor any PendingSubmission; a valid text from such a
\* user creates a PendingSubmission with the branch stored under branch:u,
\* removes waiting_feedback:u and is answered with the attachment question.
C16_EmptyTextReprompt ==
  [][\A u \in Users : \A m \in Messages :
       (Has(pending_feedback, WaitingFeedbackKey(u)) /\ Sends(u, m)) =>
         /\ EmptyText(m) =>
              /\ last'.reply = "text_prompt"
              /\ UNCHANGED <<pending_feedback, feedback_data>>
         /\ ValidText(m) =>
              /\ last'.reply = "attach_prompt"
              /\ Len(feedback_data') = Len(feedback_data) + 1
              /\ Has(pending_feedback', HashKey(Len(feedback_data')))
              /\ feedback_data'[Len(feedback_data')].branch = pending_feedback[BranchKey(u)]
              /\ ~Has(pending_feedback', WaitingFeedbackKey(u))]_vars

----------------------------------------------------------------------------
\* the user has a rate-limit record that is younger than the cooldown
InCooldown(u) ==
  /\ Has(feedback_submissions, hash_user_id(u))
  /\ now - feedback_submissions[hash_user_id(u)] < Cooldown

\* C17: when its rate-limit lookup fails, handle_new treats the user as
\* allowed: it removes the user's session keys and sends the branch prompt,
\* also for a user whose record is younger than the cooldown.
C17_LookupFailsOpen ==
  [][\A u \in Users :
       handle_new_lookup(u, FALSE) =>
         /\ check_rate_limit(feedback_submissions, u, Cooldown, now, FALSE) = <<TRUE, None>>
         /\ last'.op = "handle_new" /\ last'.reply = "branch_prompt"
         /\ pending_feedback' = PopAll(pending_feedback, keys_to_remove(u))
         /\ OnScreen(BranchKeyboard(u))']_vars

\* a /new was accepted inside the cooldown of the user's record
C17_Witness ==
  /\ After("handle_new", "branch_prompt")
  /\ InCooldown(last.user)

----------------------------------------------------------------------------
(* Two users in one group chat: each sees the prompts sent for the other.   *)

GroupUsers == {1, 2}

\* a member presses a button of a prompt of the chat
GroupButtons ==
  \E c \in GroupUsers, u \in GroupUsers :
    \/ \E b \in Branches : handle_branch_selection_in(c, u, b)
    \/ \E h \in Hashes : handle_file_attachment_yes_in(c, u, h)
    \/ \E h \in Hashes : handle_file_attachment_no_in(c, u, h)
    \/ \E h \in Hashes : handle_keep_anonymous_in(c, u, h)

NextGroup ==
  \/ \E u \in GroupUsers : handle_new(u)
  \/ \E u \in GroupUsers, m \in TextMessages : handle_feedback(u, m)
  \/ GroupButtons

SpecGroup == Init /\ [][NextGroup]_vars

\* user b sends a command or a message, or presses a button of any prompt
EventBy(b) ==
  \/ handle_new(b)
  \/ \E m \in Messages : Sends(b, m)
  \/ \E c \in GroupUsers :
       \/ \E br \in Branches : handle_branch_selection_in(c, b, br)
       \/ \E h \in Hashes :
            \/ handle_file_attachment_yes_in(c, b, h)
            \/ handle_file_attachment_no_in(c, b, h)
            \/ handle_file_done_in(c, b, h)
            \/ handle_file_add_more_in(c, b, h)
            \/ handle_keep_anonymous_in(c, b, h)
            \/ handle_add_details_in(c, b, h)

\* the per-user keys of a are as before the step
SameKeys(a) ==
  \A k \in keys_to_remove(a) :
    /\ Has(pending_feedback', k) = Has(pending_feedback, k)
    /\ Has(pending_feedback, k) => pending_feedback'[k] = pending_feedback[k]

\* the PendingSubmissions that a created are as before the step
SameSubmissions(a) ==
  \A h \in Hashes :
    feedback_data[h].user = a =>
      /\ Has(pending_feedback', HashKey(h)) = Has(pending_feedback, HashKey(h))
      /\ feedback_data'[h] = feedback_data[h]

\* the step writes no row from a PendingSubmission that a created
NoRowFrom(a) ==
  \A i \in (Len(feedback) + 1)..Len(feedback') :
    feedback_data[feedback'[i].token].user # a

\* C18: an event of user b changes no per-user key of another user a and no
\* PendingSubmission that a created, and writes no row from one.
C18_UsersIndependent ==
  [][\A a \in GroupUsers, b \in GroupUsers :
       (a # b /\ EventBy(b)) =>
         (SameKeys(a) /\ SameSubmissions(a) /\ NoRowFrom(a))]_vars
----------------------------------------------------------------------------
\* The album specification under the event loop's scheduling: a
\* delayed_process task created by asyncio.create_task wakes up once its
\* sleep is over, and a download that a processing run awaits returns.
TimerFires == \E t \in timers : delayed_process(t)
DownloadReturns ==
  \E t \in group_tasks, ok \in BOOLEAN : process_media_group_resume(t, ok)

SpecAlbumFair ==
  /\ Init
  /\ [][NextAlbum]_vars
  /\ WF_vars(TimerFires)
  /\ WF_vars(DownloadReturns)

\* the batch id has an entry in media_groups
Queued(g) == Has(media_groups, g)

\* a delayed_process task for the batch id is asleep
TimerPending(g) == \E t \in timers : t.media_group_id = g

\* C19: every entry of media_groups is eventually removed (its queued events
\* taken by batch processing), whatever the arrival pattern of the events of
\* its batch id, also when they arrive while an earlier processing run of the
\* id is suspended at a download; no entry stays without a pending timer.
C19_BatchEventuallyDestroyed ==
  \A g \in Groups : Queued(g) ~> ~Queued(g)

\* the same for the batch ids whose events have all arrived before the timer fired
C19_InTimeBatchDestroyed ==
  \A g \in Groups : Queued(g) ~> (~Queued(g) \/ g \in batch_history.late)

\* an entry is queued, no timer is pending for it, nothing is running
C19_Stranded ==
  \E g \in Groups :
    /\ Queued(g)
    /\ ~TimerPending(g)
    /\ group_tasks = {}
    /\ processing_media_groups = {}

----------------------------------------------------------------------------
\* this step creates a delayed_process task for the batch id
StartsTimer(g) == ~TimerPending(g) /\ TimerPending(g)'

\* this step's process_media_group passes the in-flight check and pops the
\* entry of the batch id: a processing run begins
TakesBatch(g) == Queued(g) /\ ~Queued(g)'

\* C20: for each batch id the debounce timer is started at most once and
\* batch processing runs at most once: once a run has taken the entry of a
\* batch id, no step starts a timer for that id and no run takes an entry of
\* it again, also when further events of the id arrive afterwards.
C20_OneTimerOneRun ==
  [][\A g \in Groups :
       g \in batch_history.fired => (~StartsTimer(g) /\ ~TakesBatch(g))]_vars

----------------------------------------------------------------------------
\* the timer t fires when the token of its target is no longer a key of
\* pending_feedback
FiresWithoutTarget(t) ==
  /\ t \in timers
  /\ ~Has(pending_feedback, HashKey(t.feedback_hash))
  /\ delayed_process(t)

\* what the claim says of such a step: the entry is removed, nothing is
\* appended, no key is created, no prompt is sent, the marker is released
Discards(g) ==
  /\ ~Queued(g)'
  /\ UNCHANGED <<pending_feedback, feedback_data, keyboards, group_tasks>>
  /\ g \notin processing_media_groups'

\* C21: when a batch's timer fires and its target is no longer in
\* pending_feedback, process_media_group removes the entry of the batch from
\* media_groups, appends nothing, creates no key of pending_feedback, sends
\* no prompt and leaves the batch id out of processing_media_groups.
C21_MissingTargetDiscards ==
  [][\A t \in timers : FiresWithoutTarget(t) => Discards(t.media_group_id)]_vars

\* the same for timers that fire while no run of their batch id is suspended
C21_MissingTargetDiscardsIdle ==
  [][\A t \in timers :
       (FiresWithoutTarget(t) /\ t.media_group_id \notin processing_media_groups)
       => (Discards(t.media_group_id) /\ last'.reply = "discarded")]_vars

\* a batch has just been discarded for want of its target
C21_Witness ==
  /\ last.op = "process_media_group"
  /\ last.reply = "discarded"
  /\ ~Has(pending_feedback, HashKey(last.hash[1]))

----------------------------------------------------------------------------
\* the run of task ends with this download and appends its files
BatchCompletes(task, ok) ==
  /\ process_media_group_resume(task, ok)
  /\ last'.reply = "files_received"

\* the entries of tail are entries for messages of msgs, in the order of msgs
InOrder(tail, msgs) ==
  \E f \in [1..Len(tail) -> 1..Len(msgs)] :
    /\ \A i, j \in 1..Len(tail) : i < j => f[i] < f[j]
    /\ \A i \in 1..Len(tail) :
         /\ tail[i].path.file_id = msgs[f[i]].file_id
         /\ tail[i].kind = msgs[f[i]].kind

\* an event of an album is put at the end of the queue of its batch id
QueuedAtEnd(u, m) ==
  LET g == m.media_group_id[1]
      before == IF Queued(g) THEN media_groups[g] ELSE <<>>
  IN
  (handle_feedback(u, m) /\ last'.reply = "queued") =>
    media_groups'[g] \in {before, Append(before, QueuedMessage(m))}

\* C22: the entries a processing run appends to the attachment list of its
\* target come after all entries the list already had, stand in the arrival
\* order of their events (events are queued in arrival order and the
\* appended entries follow the queue), and no two of them have the same
\* file reference.
C22_AppendedInArrivalOrder ==
  [][/\ \A u \in Users, m \in AlbumFiles : QueuedAtEnd(u, m)
     /\ \A task \in group_tasks, ok \in BOOLEAN :
          BatchCompletes(task, ok) =>
            LET old == feedback_data[task.feedback_hash].files
                new == feedback_data'[task.feedback_hash].files
                tail == SubSeq(new, Len(old) + 1, Len(new))
            IN
            /\ Len(new) >= Len(old)
            /\ SubSeq(new, 1, Len(old)) = old
            /\ InOrder(tail, task.messages)
            /\ \A i, j \in 1..Len(tail) :
                 tail[i].path.file_id = tail[j].path.file_id => i = j]_vars

\* a run has appended two entries at once
C22_Witness ==
  /\ last.op = "process_media_group"
  /\ last.reply = "files_received"
  /\ last.added = 2

\* a run has appended an entry to a list that had one
C22_WitnessAfter ==
  /\ last.op = "process_media_group"
  /\ last.reply = "files_received"
  /\ last.added = 1
  /\ Len(feedback_data[last.hash[1]].files) = 2

----------------------------------------------------------------------------
RECURSIVE HeldUpTo(_)
\* attachment entries held by the submissions 1..n
HeldUpTo(n) ==
  IF n = 0 THEN 0 ELSE Len(feedback_data[n].files) + HeldUpTo(n - 1)

RECURSIVE HeldBy(_)
\* successful downloads held by the suspended runs of S
HeldBy(S) ==
  IF S = {} THEN 0
  ELSE LET task == CHOOSE t \in S : TRUE IN Len(task.file_paths) + HeldBy(S \ {task})

FilesHeld == HeldUpTo(Len(feedback_data))
FilesInFlight == HeldBy(group_tasks)

\* this step ends the run of task
RunEnds(task) ==
  /\ task \in group_tasks
  /\ \E ok \in BOOLEAN : process_media_group_resume(task, ok)
  /\ \A other \in group_tasks' : other.media_group_id # task.media_group_id

\* C23: in batch processing a failed download is skipped and the run goes
\* on: every download of the batch that succeeded is held by the run and
\* appended to the target when the run ends (no successful download is
\* dropped), and when the run ends, the batch id is no longer in
\* processing_media_groups, however many downloads failed.
C23_FailedDownloadSkipped ==
  /\ [](FilesHeld + FilesInFlight = downloads)
  /\ [][\A task \in group_tasks :
          RunEnds(task) => task.media_group_id \notin processing_media_groups']_vars

\* the first download of a run failed and the run is at a later message
C23_Witness ==
  \E task \in group_tasks :
    /\ task.i > 1
    /\ task.file_paths = <<>>
    /\ task.processed_file_ids = {}

----------------------------------------------------------------------------
(* save_feedback_to_db, statement by statement, on the tables feedback and  *)
(* feedback_files.  fault says where the call fails: nowhere, at the pool   *)
(* check, at the insert of the feedback row, at the insert of the k-th      *)
(* attachment row, or at the commit.                                        *)

MaxFiles == 2

SaveEntries == {<<"p1", "photo">>, <<"p2", "document">>}
SaveFileLists ==
  UNION {[1..n -> SaveEntries] : n \in 0..MaxFiles}

NoTables == [feedback |-> <<>>, feedback_files |-> <<>>]
OneSaved ==
  [feedback |-> <<[id |-> 1, message |-> "Long queue", branch |-> "Chinobod",
                   name |-> None, phone |-> None]>>,
   feedback_files |-> <<[feedback_id |-> 1, file_path |-> "p1", file_type |-> "photo"]>>]

Faults(file_paths) ==
  {[at |-> a, k |-> 0] : a \in {"none", "pool", "feedback", "commit"}}
    \cup {[at |-> "file", k |-> k] : k \in 1..Len(file_paths)}

\* INSERT INTO feedback ... RETURNING id
insert_feedback(tables, id, message, branch, name, phone) ==
  [tables EXCEPT !.feedback =
     Append(@, [id |-> id, message |-> message, branch |-> branch,
                name |-> name, phone |-> phone])]

RECURSIVE insert_files(_, _, _, _)
\* INSERT INTO feedback_files for the first n entries of file_paths
insert_files(tables, feedback_id, file_paths, n) ==
  IF n = 0 THEN tables
  ELSE LET done == insert_files(tables, feedback_id, file_paths, n - 1) IN
       [done EXCEPT !.feedback_files =
          Append(@, [feedback_id |-> feedback_id, file_path |-> file_paths[n][1],
                     file_type |-> file_paths[n][2]])]

\* every statement takes effect at once: no transaction around the inserts
transaction_autocommit(tables, working, raised) == working

\* async with conn.transaction(): committed on normal exit, rolled back when
\* the block raises
transaction(tables, working, raised) == IF raised THEN tables ELSE working

save_feedback_to_db(tables, message, branch, name, phone, file_paths, fault) ==
  IF fault.at = "pool" THEN [tables |-> tables, result |-> None]
  ELSE
    LET feedback_id == Len(tables.feedback) + 1
        n == IF fault.at = "file" THEN fault.k - 1 ELSE Len(file_paths)
        working ==
          IF fault.at = "feedback" THEN tables
          ELSE insert_files(insert_feedback(tables, feedback_id, message, branch,
                                            name, phone),
                            feedback_id, file_paths, n)
        raised == fault.at \in {"feedback", "file", "commit"}
    IN [tables |-> transaction(tables, working, raised),
        result |-> IF raised THEN None ELSE Some(feedback_id)]

SaveInputs ==
  UNION {{[tables |-> tb, message |-> "Broken AC", branch |-> "Chilonzor",
           name |-> nm, phone |-> nm, file_paths |-> fp, fault |-> ft,
           out |-> None] :
            tb \in {NoTables, OneSaved}, nm \in {None, Some("Aziz")},
            ft \in Faults(fp)} : fp \in SaveFileLists}

InitSave ==
  /\ InitBot
  /\ rl \in {Some(i) : i \in SaveInputs}

save_feedback_to_db_call ==
  /\ rl # None /\ rl[1].out = None
  /\ LET i == rl[1] IN
     rl' = Some([i EXCEPT !.out =
                  Some(save_feedback_to_db(i.tables, i.message, i.branch, i.name,
                                           i.phone, i.file_paths, i.fault))])
  /\ UNCHANGED botvars

SpecSave == InitSave /\ [][save_feedback_to_db_call]_vars

\* the rows of the call's submission in the tables it left
NewId == Len(rl[1].tables.feedback) + 1
RowsWritten ==
  LET t == rl[1].out[1].tables IN
  {i \in 1..Len(t.feedback) : t.feedback[i].id = NewId}
FileRowsWritten ==
  LET t == rl[1].out[1].tables IN
  {i \in 1..Len(t.feedback_files) : t.feedback_files[i].feedback_id = NewId}

\* C24: after save_feedback_to_db has returned or raised, the tables hold
\* either the feedback row of the call with all of its attachment rows, or
\* no row of the call at all, wherever the call failed (also at an
\* attachment insert after the feedback row was inserted); the rows of
\* earlier submissions are as they were.
C24_AllOrNothing ==
  rl[1].out # None =>
    LET t == rl[1].out[1].tables
        before == rl[1].tables
    IN
    /\ \/ Cardinality(RowsWritten) = 1
          /\ Cardinality(FileRowsWritten) = Len(rl[1].file_paths)
       \/ RowsWritten = {} /\ FileRowsWritten = {}
    /\ SubSeq(t.feedback, 1, Len(before.feedback)) = before.feedback
    /\ SubSeq(t.feedback_files, 1, Len(before.feedback_files)) = before.feedback_files

\* the call failed at its second attachment insert and left no row
C24_Witness ==
  /\ rl[1].out # None
  /\ rl[1].fault = [at |-> "file", k |-> 2]
  /\ rl[1].out[1].result = None
  /\ RowsWritten = {} /\ FileRowsWritten = {}

----------------------------------------------------------------------------
\* the last handler step told its user that the submission was saved
ToldSaved == last.op \in Finalizers /\ last.reply = "saved"

\* the rate-limit record of user u carries time t
RecordedAt(u, t) ==
  /\ Has(feedback_submissions, hash_user_id(u))
  /\ feedback_submissions[hash_user_id(u)] = t

\* C25: after a finalization that the user is told succeeded, the table
\* feedback_submissions holds the record of that user's hashed id and its
\* time is the time of that finalization, also when the upsert of the
\* record failed.
C25_RecordAfterFinalization ==
  ToldSaved => RecordedAt(last.user, feedback[Len(feedback)].created_at)

\* the same for the finalizations whose upsert succeeded
C25_RecordAfterUpsert ==
  (ToldSaved /\ feedback[Len(feedback)].recorded) =>
    RecordedAt(last.user, feedback[Len(feedback)].created_at)

----------------------------------------------------------------------------
\* the buttons whose handler looks the token up before it does anything else
CheckedButton(u, h) ==
  \/ handle_file_attachment_no(u, h)
  \/ handle_file_done(u, h)
  \/ handle_keep_anonymous(u, h)
  \/ handle_add_details(u, h)

\* every button that carries a token
TokenButton(u, h) ==
  \/ CheckedButton(u, h)
  \/ handle_file_attachment_yes(u, h)
  \/ handle_file_add_more(u, h)

\* the step answers "not found" and sets no step marker to the token h
AnsweredNotFound(h) ==
  /\ last'.reply = "not_found"
  /\ \A v \in Users : \A k \in TokenMarkers(v) :
       (Has(pending_feedback', k) /\ pending_feedback'[k] = h) =>
         (Has(pending_feedback, k) /\ pending_feedback[k] = h)

\* C26: a button event ("yes", "no", "done", "add more", "stay anonymous",
\* "add details") whose token is not a key of pending_feedback is answered
\* "not found, please resubmit" and creates no marker that refers to the
\* token.
C26_StaleButtonNotFound ==
  [][\A u \in Users, h \in Hashes :
       (TokenButton(u, h) /\ ~Has(pending_feedback, HashKey(h)))
       => AnsweredNotFound(h)]_vars

\* the same for "no", "done", "stay anonymous" and "add details"
C26_StaleCheckedButtonNotFound ==
  [][\A u \in Users, h \in Hashes :
       (CheckedButton(u, h) /\ ~Has(pending_feedback, HashKey(h)))
       => AnsweredNotFound(h)]_vars

----------------------------------------------------------------------------
\* the event before this step was a /new of user u that the rate limiter
\* rejected
RejectedNew(u) ==
  /\ last.op = "handle_new"
  /\ last.user = u
  /\ last.reply = "rate_limited"

\* this step sets waiting_feedback:u
OpensFlow(u) ==
  /\ ~Has(pending_feedback, WaitingFeedbackKey(u))
  /\ Has(pending_feedback', WaitingFeedbackKey(u))

\* C27: waiting_feedback:u is set only in a flow that an allowed /new of u
\* started; in particular the event that follows a rejected /new of u does
\* not set it.
C27_FlowNeedsAllowedNew ==
  [][\A u \in Users : RejectedNew(u) => ~OpensFlow(u)]_vars

----------------------------------------------------------------------------
\* the batch ids of the runs suspended at a download
Running == {task.media_group_id : task \in group_tasks}

\* this step is the return of the run that holds the marker of g
ReleasedByOwner(g) ==
  \E task \in group_tasks, ok \in BOOLEAN :
    /\ task.media_group_id = g
    /\ process_media_group_resume(task, ok)

\* C28: the marker of a batch id is in processing_media_groups exactly
\* while a run of that id is suspended (the set is empty when none is
\* running), and it leaves the set only in the step in which that run ends:
\* an invocation that returns because the marker is set leaves it set.
C28_MarkerOwnedByRun ==
  /\ [](processing_media_groups = Running)
  /\ [][\A g \in Groups :
          (g \in processing_media_groups /\ g \notin processing_media_groups')
          => ReleasedByOwner(g)]_vars

\* an invocation has returned at the marker check and the marker is still set
C28_Witness ==
  /\ last.op = "process_media_group"
  /\ last.reply = "already_processing"
  /\ last.group[1] \in processing_media_groups

----------------------------------------------------------------------------
(* Two attachment handlers of one submission suspended at their downloads   *)
(* at the same time: a single file A, then a second single file B or a      *)
(* batch with the file B; each download succeeds or fails; the handlers     *)
(* return in either order, the user pressing "add more" in between.         *)

Suspended == Cardinality(uploads) + Cardinality(group_tasks)

Returned ==
  /\ last.op \in {"handle_file_upload", "process_media_group"}
  /\ last.reply \in {"files_received", "file_prompt", "no_files"}

ScriptFileA ==
  /\ After("handle_file_attachment_yes", "files_prompt")
  /\ handle_feedback(script.user_id, MediaMessage("fA", None, None, 0))
ScriptFileB ==
  /\ After("handle_file_upload", "downloading")
  /\ Suspended = 1
  /\ handle_feedback(script.user_id, MediaMessage("dB", None, None, 0))
ScriptAlbumB ==
  /\ After("handle_file_upload", "downloading")
  /\ Suspended = 1
  /\ handle_feedback(script.user_id, MediaMessage("dB", None, Some("g1"), 1))
ScriptTimerB ==
  /\ After("handle_file_upload", "queued")
  /\ \E t \in timers : delayed_process(t)
ScriptReturn ==
  /\ \/ Suspended = 2
     \/ Suspended = 1 /\ (Returned \/ After("handle_file_add_more", "files_prompt"))
  /\ \/ \E f \in uploads, ok \in BOOLEAN : handle_file_upload_resume(f, ok)
     \/ \E t \in group_tasks, ok \in BOOLEAN : process_media_group_resume(t, ok)
ScriptAddMore ==
  /\ Returned /\ last.reply = "files_received"
  /\ Suspended = 1
  /\ handle_file_add_more(script.user_id, 1)

NextOverlap ==
  \/ Tick
  \/ ScriptNew
  \/ ScriptBranch
  \/ ScriptText
  \/ ScriptYes
  \/ ScriptFileA
  \/ ScriptFileB
  \/ ScriptAlbumB
  \/ ScriptTimerB
  \/ ScriptReturn
  \/ ScriptAddMore

SpecOverlap == InitScript /\ [][NextOverlap]_vars

\* both handlers have returned
BothReturned == Returned /\ Suspended = 0

\* C29: when two attachment handlers of one submission (two single-file
\* uploads, or a single-file upload and a batch run) were suspended at their
\* downloads together and both have returned, the attachment list of the
\* submission holds one entry for every download that succeeded, each for
\* its own file: no file of either handler is lost.
C29_NoAttachmentLost ==
  BothReturned =>
    LET files == feedback_data[1].files IN
    /\ Has(pending_feedback, HashKey(1))
    /\ Len(files) = downloads
    /\ Cardinality({files[i].path.file_id : i \in 1..Len(files)}) = downloads

\* both handlers have returned with their downloads succeeded
C29_Witness ==
  /\ BothReturned
  /\ downloads = 2
  /\ Len(feedback_data[1].files) = 2
====
